---- MODULE Spec2Model ----
(***************************************************************************)
(* Model of package auth (auth.go): the Service composition root, its      *)
(* provider registry (AddProvider / Provider), the Middleware accessor and *)
(* the HTTP dispatcher returned by Handlers.                                *)
(*                                                                         *)
(* A Go string is a sequence of one-character strings, so that             *)
(* strings.ToLower, strings.Split and fmt.Sprintf are computed and not     *)
(* assumed.  A Go slice is a header (arr, len, cap) over a backing array   *)
(* kept in `heap`, so that a copied header and the header it was copied    *)
(* from are told apart.  Calls are atomic steps, except in SpecServing and  *)
(* SpecRace, where a request is taken one read of the registry at a time.  *)
(***************************************************************************)
EXTENDS Integers, Sequences, FiniteSets, TLC

VARIABLES
    state,      \* "start" | "failed" | "ready": outcome of the last NewService call
    err,        \* error returned by the last NewService call (empty: nil)
    svc,        \* the Service NewService returned (ZeroSvc until then)
    heap,       \* backing arrays of []provider.Service slices, by array id
    mw,         \* the middleware.Authenticator value the host holds: the last one
                \* Middleware() returned (held is FALSE until it is called)
    handlers,   \* what Handlers() returned: "none" until called
    out,        \* result of the last Provider call or of the last request served
    gor,        \* per goroutine of the hosting server: the authHandler call it runs,
                \* taken one read of s.providers at a time
    writer      \* the AddProvider call in progress, taken as a begin and an end

vars == <<state, err, svc, heap, mw, handlers, out, gor, writer>>

----------------------------------------------------------------------------
(* Bounds of the model *)

\* most descriptors the registry is grown to
MaxProviders == 2

----------------------------------------------------------------------------
(* String literals of the source and of the inputs *)

s_github == <<"g", "i", "t", "h", "u", "b">>
s_google == <<"g", "o", "o", "g", "l", "e">>
s_facebook == <<"f", "a", "c", "e", "b", "o", "o", "k">>
s_yandex == <<"y", "a", "n", "d", "e", "x">>
s_dev == <<"d", "e", "v">>
s_list == <<"l", "i", "s", "t">>
s_logout == <<"l", "o", "g", "o", "u", "t">>
s_default_issuer == <<"g", "o", "-", "p", "k", "g", "z", "/", "a", "u", "t", "h">>
s_provider_ == <<"p", "r", "o", "v", "i", "d", "e", "r", " ">>
s_not_found == <<" ", "n", "o", "t", " ", "f", "o", "u", "n", "d">>
s_not_supported == <<" ", "n", "o", "t", " ", "s", "u", "p", "p", "o", "r", "t", "e", "d">>
s_SecretReader_not_defined == <<"S", "e", "c", "r", "e", "t", "R", "e", "a", "d", "e", "r", " ", "n", "o", "t", " ", "d", "e", "f", "i", "n", "e", "d">>

\* inputs only
s_GitHub == <<"G", "i", "t", "H", "u", "b">>
s_DEV == <<"D", "E", "V">>
s_twitter == <<"t", "w", "i", "t", "t", "e", "r">>
s_foo == <<"f", "o", "o">>
s_my_test_app == <<"m", "y", "-", "t", "e", "s", "t", "-", "a", "p", "p">>
s_cid == <<"c", "i", "d">>
s_csecret == <<"c", "s", "e", "c", "r", "e", "t">>
s_empty == <<>>

p_list == <<"l", "i", "s", "t">>
p_auth_list == <<"/", "a", "u", "t", "h", "/", "l", "i", "s", "t">>
p_logout == <<"l", "o", "g", "o", "u", "t">>
p_auth_logout == <<"/", "a", "u", "t", "h", "/", "l", "o", "g", "o", "u", "t">>
p_auth_anything_logout == <<"/", "a", "u", "t", "h", "/", "a", "n", "y", "t", "h", "i", "n", "g", "/", "l", "o", "g", "o", "u", "t">>
p_auth_github_logout == <<"/", "a", "u", "t", "h", "/", "g", "i", "t", "h", "u", "b", "/", "l", "o", "g", "o", "u", "t">>
p_auth_foo_bar == <<"/", "a", "u", "t", "h", "/", "f", "o", "o", "/", "b", "a", "r">>
p_singleseg == <<"/", "s", "i", "n", "g", "l", "e", "s", "e", "g">>
p_noslash == <<"s", "i", "n", "g", "l", "e", "s", "e", "g">>
p_auth_dev_login == <<"/", "a", "u", "t", "h", "/", "d", "e", "v", "/", "l", "o", "g", "i", "n">>
p_auth_github_login == <<"/", "a", "u", "t", "h", "/", "g", "i", "t", "h", "u", "b", "/", "l", "o", "g", "i", "n">>
p_auth_yandex_login == <<"/", "a", "u", "t", "h", "/", "y", "a", "n", "d", "e", "x", "/", "l", "o", "g", "i", "n">>

\* names handed to AddProvider: the five kinds, mixed-case spellings, an unknown one
RegNames == {s_github, s_google, s_facebook, s_yandex, s_dev,
             s_GitHub, s_DEV, s_twitter}
\* (cid, csecret) pairs handed to AddProvider
Creds == {<<s_cid, s_csecret>>, <<s_empty, s_empty>>}
\* names handed to AddProvider where every operation of the package is in play
OpsRegNames == {s_dev, s_DEV, s_github, s_twitter}
\* names handed to Provider
LookupNames == {s_github, s_facebook, s_yandex, s_dev, s_DEV, s_twitter}
\* r.URL.Path of the requests served by the provider-dispatch handler
Paths == {p_list, p_auth_list, p_logout, p_auth_logout,
          p_auth_anything_logout, p_auth_github_logout, p_auth_foo_bar,
          p_singleseg, p_noslash, p_auth_dev_login,
          p_auth_github_login, p_auth_yandex_login}
\* Opts values handed to NewService
OptsValues == [SecretReader : {"nil", "secretFn"},
               Issuer : {s_empty, s_my_test_app},
               AvatarStore : {"nil", "localfs"}]

----------------------------------------------------------------------------
(* Library functions the source calls *)

UpperChars == <<"A", "B", "C", "D", "E", "F", "G", "H", "I", "J", "K", "L", "M", "N", "O", "P", "Q", "R", "S", "T", "U", "V", "W", "X", "Y", "Z">>
LowerChars == <<"a", "b", "c", "d", "e", "f", "g", "h", "i", "j", "k", "l", "m", "n", "o", "p", "q", "r", "s", "t", "u", "v", "w", "x", "y", "z">>

\* the lower-case letter of each upper-case ASCII letter
LowerOf == [c \in {UpperChars[i] : i \in 1..Len(UpperChars)} |->
               LowerChars[CHOOSE i \in 1..Len(UpperChars) : UpperChars[i] = c]]

\* strings.ToLower, one character
ToLowerChar(c) == IF c \in DOMAIN LowerOf THEN LowerOf[c] ELSE c

\* strings.ToLower(name)
ToLower(s) == [i \in 1..Len(s) |-> ToLowerChar(s[i])]

\* strings.Split(s, sep) for a one-character sep: s cut at every sep, so one
\* element more than s has seps (one element, s itself, when it has none)
RECURSIVE Split(_, _)
Split(s, sep) ==
    IF s = <<>>
    THEN <<s_empty>>
    ELSE LET rest == Split(Tail(s), sep)
         IN IF Head(s) = sep
            THEN <<s_empty>> \o rest
            ELSE <<(<<Head(s)>> \o rest[1])>> \o Tail(rest)

----------------------------------------------------------------------------
(* Values *)

\* provider.Service{}: the zero descriptor
ZeroService == [Name |-> s_empty, Cid |-> s_empty, Csecret |-> s_empty, Issuer |-> s_empty]

\* a nil []provider.Service
NilSlice == [arr |-> 0, len |-> 0, cap |-> 0]

\* the elements a slice header shows
Elems(h, sl) == IF sl.len = 0 THEN <<>> ELSE SubSeq(h[sl.arr], 1, sl.len)

\* Service{} before NewService has returned one
ZeroSvc == [opts |-> [SecretReader |-> "nil", Issuer |-> s_empty, AvatarStore |-> "nil"],
            issuer |-> s_empty,
            avatarProxy |-> "nil",
            providers |-> NilSlice,
            authMiddleware |-> [Providers |-> NilSlice]]

NoOut == [op |-> "none", outcome |-> "none", status |-> 0, bodyKind |-> "empty",
          list |-> <<>>, error |-> s_empty, handler |-> 0, arg |-> s_empty,
          service |-> ZeroService]

----------------------------------------------------------------------------
(* NewService *)

\* NewService with the mandatory-option check dropped
NewServiceUnchecked(opts) ==
    [ok |-> TRUE,
     svc |-> [opts |-> opts,
              issuer |-> IF opts.Issuer = s_empty THEN s_default_issuer ELSE s_empty,
              avatarProxy |-> IF opts.AvatarStore /= "nil" THEN "proxy" ELSE "nil",
              providers |-> NilSlice,
              authMiddleware |-> [Providers |-> NilSlice]],
     err |-> s_empty]

\* NewService(opts): the (Service, error) pair it returns
NewServiceResult(opts) ==
    IF opts.SecretReader = "nil"
    THEN [ok |-> FALSE, svc |-> ZeroSvc, err |-> s_SecretReader_not_defined]
    ELSE [ok |-> TRUE,
          svc |-> [opts |-> opts,
                   issuer |-> IF opts.Issuer = s_empty THEN s_default_issuer ELSE s_empty,
                   avatarProxy |-> IF opts.AvatarStore /= "nil" THEN "proxy" ELSE "nil",
                   providers |-> NilSlice,
                   authMiddleware |-> [Providers |-> NilSlice]],
          err |-> s_empty]

NewService(opts) ==
    /\ state \in {"start", "failed"}
    /\ LET r == NewServiceResult(opts)
       IN /\ state' = IF r.ok THEN "ready" ELSE "failed"
          /\ svc' = r.svc
          /\ err' = r.err
    /\ UNCHANGED <<heap, mw, handlers, out, gor, writer>>

----------------------------------------------------------------------------
(* Slices *)

\* an append whose fresh array does not get the old elements
appendNoCopy(h, sl, x) ==
    IF sl.len < sl.cap
    THEN [heap |-> [h EXCEPT ![sl.arr][sl.len + 1] = x],
          slice |-> [sl EXCEPT !.len = sl.len + 1]]
    ELSE LET newcap == IF sl.cap = 0 THEN 1 ELSE 2 * sl.cap
             arr == [i \in 1..newcap |-> IF i = sl.len + 1 THEN x ELSE ZeroService]
         IN [heap |-> h \o <<arr>>,
             slice |-> [arr |-> Len(h) + 1, len |-> sl.len + 1, cap |-> newcap]]

\* append(sl, x): in place when capacity allows, else into a fresh array the
\* old elements are copied to (the runtime picks the new capacity; doubling is
\* taken here, and nothing the package shows depends on it)
append(h, sl, x) ==
    IF sl.len < sl.cap
    THEN [heap |-> [h EXCEPT ![sl.arr][sl.len + 1] = x],
          slice |-> [sl EXCEPT !.len = sl.len + 1]]
    ELSE LET newcap == IF sl.cap = 0 THEN 1 ELSE 2 * sl.cap
             arr == [i \in 1..newcap |->
                        IF i <= sl.len THEN h[sl.arr][i]
                        ELSE IF i = sl.len + 1 THEN x
                        ELSE ZeroService]
         IN [heap |-> h \o <<arr>>,
             slice |-> [arr |-> Len(h) + 1, len |-> sl.len + 1, cap |-> newcap]]

----------------------------------------------------------------------------
(* Provider constructors (package provider) *)

\* a Params with cid and csecret in each other's place
ParamsSwapped(s, cid, csecret) ==
    [Issuer |-> s.issuer, AvatarProxy |-> s.avatarProxy, Cid |-> csecret, Csecret |-> cid]

\* provider.Params built by AddProvider
Params(s, cid, csecret) ==
    [Issuer |-> s.issuer, AvatarProxy |-> s.avatarProxy, Cid |-> cid, Csecret |-> csecret]

NewGithub(p) ==
    [Name |-> s_github, Cid |-> p.Cid, Csecret |-> p.Csecret, Issuer |-> p.Issuer]

NewGoogle(p) ==
    [Name |-> s_google, Cid |-> p.Cid, Csecret |-> p.Csecret, Issuer |-> p.Issuer]

NewFacebook(p) ==
    [Name |-> s_facebook, Cid |-> p.Cid, Csecret |-> p.Csecret, Issuer |-> p.Issuer]

NewDev(p) ==
    [Name |-> s_dev, Cid |-> p.Cid, Csecret |-> p.Csecret, Issuer |-> p.Issuer]

----------------------------------------------------------------------------
(* AddProvider *)

\* a switch whose default case builds a dev descriptor instead of returning
NewProvidersDefaultDev(name, p) ==
    LET kind == ToLower(name)
    IN CASE kind = s_github -> <<NewGithub(p)>>
         [] kind = s_google -> <<NewGoogle(p)>>
         [] kind = s_facebook -> <<NewFacebook(p)>>
         [] kind = s_yandex -> <<NewFacebook(p)>>
         [] OTHER -> <<NewDev(p)>>

\* the switch of AddProvider: the descriptors it appends (none for the default case)
NewProviders(name, p) ==
    LET kind == ToLower(name)
    IN CASE kind = s_github -> <<NewGithub(p)>>
         [] kind = s_google -> <<NewGoogle(p)>>
         [] kind = s_facebook -> <<NewFacebook(p)>>
         [] kind = s_yandex -> <<NewFacebook(p)>>
         [] kind = s_dev -> <<NewDev(p)>>
         [] OTHER -> <<>>

\* an AddProvider that appends and does not assign s.authMiddleware.Providers
AddProviderNoPush(s, h, name, cid, csecret) ==
    LET made == NewProviders(name, Params(s, cid, csecret))
    IN IF made = <<>>
       THEN [svc |-> s, heap |-> h]
       ELSE LET a == append(h, s.providers, made[1])
            IN [svc |-> [s EXCEPT !.providers = a.slice], heap |-> a.heap]

\* s.AddProvider(name, cid, csecret): the Service and the heap after the call
AddProviderResult(s, h, name, cid, csecret) ==
    LET made == NewProviders(name, Params(s, cid, csecret))
    IN IF made = <<>>
       THEN [svc |-> s, heap |-> h]
       ELSE LET a == append(h, s.providers, made[1])
                s1 == [s EXCEPT !.providers = a.slice]
            IN [svc |-> [s1 EXCEPT !.authMiddleware.Providers = s1.providers],
                heap |-> a.heap]

AddProvider(name, cid, csecret) ==
    /\ state = "ready"
    /\ LET r == AddProviderResult(svc, heap, name, cid, csecret)
       IN /\ r.svc.providers.len <= MaxProviders
          /\ svc' = r.svc
          /\ heap' = r.heap
    /\ UNCHANGED <<state, err, mw, handlers, out, gor, writer>>

----------------------------------------------------------------------------
(* Provider *)

\* a loop that keeps the last match instead of returning at the first
ProviderIndexLast(provs, name) ==
    IF \E i \in 1..Len(provs) : provs[i].Name = name
    THEN CHOOSE i \in 1..Len(provs) :
             provs[i].Name = name /\ \A j \in (i + 1)..Len(provs) : provs[j].Name /= name
    ELSE 0

\* a loop that compares names ignoring letter case
ProviderIndexFold(provs, name) ==
    IF \E i \in 1..Len(provs) : ToLower(provs[i].Name) = ToLower(name)
    THEN CHOOSE i \in 1..Len(provs) :
             /\ ToLower(provs[i].Name) = ToLower(name)
             /\ \A j \in 1..(i - 1) : ToLower(provs[j].Name) /= ToLower(name)
    ELSE 0

\* the loop of Provider: 1-based position of the first descriptor named `name`,
\* 0 when the loop ends without a match
ProviderIndex(provs, name) ==
    IF \E i \in 1..Len(provs) : provs[i].Name = name
    THEN CHOOSE i \in 1..Len(provs) :
             provs[i].Name = name /\ \A j \in 1..(i - 1) : provs[j].Name /= name
    ELSE 0

\* errors.Errorf("provider %s not found", name)
NotFoundError(name) == s_provider_ \o name \o s_not_found

\* s.Provider(name): the (provider.Service, error) pair; index is the position
\* of the returned descriptor in the registry
ProviderResult(provs, name) ==
    LET i == ProviderIndex(provs, name)
    IN IF i /= 0
       THEN [service |-> provs[i], index |-> i, err |-> s_empty]
       ELSE [service |-> ZeroService, index |-> 0, err |-> NotFoundError(name)]

Provider(name) ==
    /\ state = "ready"
    /\ LET r == ProviderResult(Elems(heap, svc.providers), name)
       IN out' = [NoOut EXCEPT !.op = "Provider",
                               !.outcome = IF r.err = s_empty THEN "found" ELSE "notfound",
                               !.arg = name,
                               !.service = r.service,
                               !.handler = r.index,
                               !.error = r.err]
    /\ UNCHANGED <<state, err, svc, heap, mw, handlers, gor, writer>>

----------------------------------------------------------------------------
(* Middleware *)

\* s.Middleware(): the Authenticator struct, returned by value
MiddlewareResult(s) == s.authMiddleware

Middleware ==
    /\ state = "ready"
    /\ mw' = [held |-> TRUE, value |-> MiddlewareResult(svc)]
    /\ UNCHANGED <<state, err, svc, heap, handlers, out, gor, writer>>

----------------------------------------------------------------------------
(* Handlers *)

\* http.ResponseWriter as the handler leaves it: status 0 until a header or a
\* body is written
NewWriter == [NoOut EXCEPT !.op = "auth", !.outcome = "http"]

\* w.WriteHeader(code): the first call sets the status
WriteHeader(w, code) == IF w.status = 0 THEN [w EXCEPT !.status = code] ELSE w

\* rest.RenderJSON(w, r, data): writes data as the JSON body; a body written
\* before any WriteHeader goes out with status 200
RenderJSONList(w, list) ==
    [WriteHeader(w, 200) EXCEPT !.bodyKind = "list", !.list = list]

RenderJSONError(w, msg) ==
    [WriteHeader(w, 200) EXCEPT !.bodyKind = "error", !.error = msg]

\* the request is handed to the handler of the descriptor at position i
Delegate(w, i, service) ==
    [w EXCEPT !.outcome = "delegated", !.handler = i, !.service = service]

\* an index out of range or a nil dereference: the handler panics
Panic(w) == [w EXCEPT !.outcome = "panic"]

\* the length check written as len(elems) < 1
TooFewElemsOffByOne(elems) == Len(elems) < 1

\* len(elems) < 2
TooFewElems(elems) == Len(elems) < 2

\* the list built by prepending instead of appending
ListNamesReversed(provs) == [i \in 1..Len(provs) |-> provs[Len(provs) + 1 - i].Name]

\* the loop building the list of names
ListNames(provs) == [i \in 1..Len(provs) |-> provs[i].Name]

\* logout handed to the last registered provider instead of the first
LogoutHandlerLast(w, provs) ==
    IF Len(provs) = 0 THEN Panic(w) ELSE Delegate(w, Len(provs), provs[Len(provs)])

\* s.providers[0].Handler(w, r)
LogoutHandler(w, provs) ==
    IF Len(provs) = 0 THEN Panic(w) ELSE Delegate(w, 1, provs[1])

\* the dispatcher reusing the text of Provider's error
NotSupportedMessageAsLookup(provName) == NotFoundError(provName)

\* fmt.Sprintf("provider %s not supported", provName)
NotSupportedMessage(provName) == s_provider_ \o provName \o s_not_supported

\* the lookup branch of providerHandler
LookupHandler(w, provs, provName) ==
    LET r == ProviderResult(provs, provName)
    IN IF r.err /= s_empty
       THEN RenderJSONError(WriteHeader(w, 400), NotSupportedMessage(provName))
       ELSE Delegate(w, r.index, r.service)

\* providerHandler(w, r) for r.URL.Path = path, reading the registry through s
providerHandler(s, h, path) ==
    LET w == [NewWriter EXCEPT !.arg = path]
        elems == Split(path, "/")
        provs == Elems(h, s.providers)
    IN IF TooFewElems(elems)
       THEN WriteHeader(w, 400)
       ELSE IF elems[Len(elems)] = s_list
       THEN RenderJSONList(w, ListNames(provs))
       ELSE IF elems[Len(elems)] = s_logout
       THEN LogoutHandler(w, provs)
       ELSE IF Len(elems) < 2
       THEN Panic(w)    \* elems[len(elems)-2]: index out of range
       ELSE LookupHandler(w, provs, elems[Len(elems) - 1])

\* (*avatar.Proxy).Handler with receiver recv
ProxyHandler(recv) ==
    LET w == [NoOut EXCEPT !.op = "avatar", !.outcome = "http"]
    IN IF recv = "nil" THEN Panic(w) ELSE [w EXCEPT !.outcome = "proxy"]

\* s.Handlers(): the auth handler closes over s; the avatar handler is the
\* method value s.avatarProxy.Handler, bound to the pointer read at this call
HandlersResult(s) == s.avatarProxy

Handlers ==
    /\ state = "ready"
    /\ handlers' = HandlersResult(svc)
    /\ UNCHANGED <<state, err, svc, heap, mw, out, gor, writer>>

\* the hosting server calls authHandler with a request for `path`
ServeAuth(path) ==
    /\ state = "ready"
    /\ handlers /= "none"
    /\ out' = providerHandler(svc, heap, path)
    /\ UNCHANGED <<state, err, svc, heap, mw, handlers, gor, writer>>

\* the hosting server calls avatarHandler
ServeAvatar ==
    /\ state = "ready"
    /\ handlers /= "none"
    /\ out' = ProxyHandler(handlers)
    /\ UNCHANGED <<state, err, svc, heap, mw, handlers, gor, writer>>

----------------------------------------------------------------------------
(* authHandler and AddProvider on goroutines of their own.  Neither takes a *)
(* lock: a read of s.providers, or of an element, that falls inside an      *)
(* AddProvider call which writes is a data race and may return any of the   *)
(* values listed in HeaderReads and ElemReads.                              *)

\* the goroutines the hosting server serves requests on
Goroutines == {"g1", "g2"}

\* what a read of memory no array of the model covers returns
Garbage == [Name |-> <<"?">>, Cid |-> <<"?">>, Csecret |-> <<"?">>, Issuer |-> <<"?">>]

\* such a read ending in a fault instead
Fault == [Name |-> <<"!">>, Cid |-> <<"!">>, Csecret |-> <<"!">>, Issuer |-> <<"!">>]

\* a goroutine running no request
IdleG == [pc |-> "idle", kind |-> "none", target |-> s_empty, hdr |-> NilSlice,
          i |-> 0, names |-> <<>>, overlap |-> FALSE, resp |-> NoOut]

\* a goroutine whose request was answered with resp
DoneG(resp, overlap) == [IdleG EXCEPT !.pc = "done", !.resp = resp, !.overlap = overlap]

\* no AddProvider call in progress
IdleWriter == [pc |-> "idle", name |-> s_empty, cid |-> s_empty, csecret |-> s_empty]

\* the Service and the heap the AddProvider call in progress is producing
Pending == AddProviderResult(svc, heap, writer.name, writer.cid, writer.csecret)

\* an AddProvider call is in progress and assigns s.providers
Writing == writer.pc = "writing" /\ Pending.svc.providers /= svc.providers

\* the slice headers a read of s.providers may return: the header itself, or,
\* inside a call that assigns it, any mix of the old and the new pointer and
\* length (a slice header is three words, stored and loaded one by one)
HeaderReads ==
    IF Writing
    THEN LET old == svc.providers
             new == Pending.svc.providers
         IN {[arr |-> a.arr, len |-> l, cap |-> a.cap] :
                a \in {old, new}, l \in {old.len, new.len}}
    ELSE {svc.providers}

\* the values a read of element k (1-based) of array arr may return
ElemReads(arr, k) ==
    LET inCur == arr \in 1..Len(heap) /\ k \in 1..Len(heap[arr])
        inPend == /\ Writing
                  /\ arr \in 1..Len(Pending.heap)
                  /\ k \in 1..Len(Pending.heap[arr])
    IN IF inCur /\ (~inPend \/ Pending.heap[arr][k] = heap[arr][k])
       THEN {heap[arr][k]}
       ELSE IF inCur      \* the slot append is writing in place
       THEN {heap[arr][k], Pending.heap[arr][k], Garbage}
       ELSE IF inPend     \* a slot of the fresh array append is filling
       THEN {Pending.heap[arr][k], ZeroService, Garbage}
       ELSE {Garbage, Fault}   \* past the array a torn header points into

\* paths, names, credentials and options of the step-by-step specifications
RacePaths == {p_auth_list, p_auth_logout, p_auth_dev_login, p_auth_foo_bar, p_noslash}
RaceRegNames == {s_dev, s_github, s_twitter}
RaceCreds == {<<s_cid, s_csecret>>}
RaceOpts == {o \in OptsValues : o.SecretReader = "secretFn" /\ o.Issuer = s_empty}

\* the branch of providerHandler a request with these path elements takes
RequestKind(elems) ==
    IF TooFewElems(elems) THEN "short"
    ELSE IF elems[Len(elems)] = s_list THEN "list"
    ELSE IF elems[Len(elems)] = s_logout THEN "logout"
    ELSE IF Len(elems) < 2 THEN "panic"
    ELSE "lookup"

\* a loop body that puts the name in front of the list
RangeStepPrepend(names, p) == <<p.Name>> \o names

\* list = append(list, p.Name)
RangeStep(names, p) == Append(names, p.Name)

\* a logout branch that reads the element after the first
LogoutStepSecond(r) ==
    IF r.hdr.len = 0
    THEN {DoneG(Panic(r.resp), r.overlap)}
    ELSE {IF e = Fault THEN DoneG(Panic(r.resp), r.overlap)
          ELSE DoneG(Delegate(r.resp, 2, e), r.overlap) : e \in ElemReads(r.hdr.arr, 2)}

\* s.providers[0].Handler(w, r): the bounds check against the length read,
\* then the read of element 0
LogoutStep(r) ==
    IF r.hdr.len = 0
    THEN {DoneG(Panic(r.resp), r.overlap)}
    ELSE {IF e = Fault THEN DoneG(Panic(r.resp), r.overlap)
          ELSE DoneG(Delegate(r.resp, 1, e), r.overlap) : e \in ElemReads(r.hdr.arr, 1)}

\* one turn of `for _, p := range s.providers` building the list, or the
\* RenderJSON after the last turn
ListStep(r) ==
    IF r.i < r.hdr.len
    THEN {IF e = Fault THEN DoneG(Panic(r.resp), r.overlap)
          ELSE [r EXCEPT !.i = r.i + 1, !.names = RangeStep(r.names, e)] :
             e \in ElemReads(r.hdr.arr, r.i + 1)}
    ELSE {DoneG(RenderJSONList(r.resp, r.names), r.overlap)}

\* one turn of the loop of s.Provider(provName) and what providerHandler does
\* with its result
LookupStep(r) ==
    IF r.i < r.hdr.len
    THEN {IF e = Fault THEN DoneG(Panic(r.resp), r.overlap)
          ELSE IF e.Name = r.target THEN DoneG(Delegate(r.resp, r.i + 1, e), r.overlap)
          ELSE [r EXCEPT !.i = r.i + 1] :
             e \in ElemReads(r.hdr.arr, r.i + 1)}
    ELSE {DoneG(RenderJSONError(WriteHeader(r.resp, 400), NotSupportedMessage(r.target)),
                r.overlap)}

\* authHandler is called on goroutine g with a request for `path`: the path is
\* split and, unless it is too short, the header of s.providers is read
ServeBegin(g, path) ==
    /\ state = "ready"
    /\ handlers /= "none"
    /\ gor[g].pc /= "scan"
    /\ LET w == [NewWriter EXCEPT !.arg = path]
           elems == Split(path, "/")
           kind == RequestKind(elems)
           overlap == writer.pc = "writing"
       IN IF kind = "short"
          THEN gor' = [gor EXCEPT ![g] = DoneG(WriteHeader(w, 400), overlap)]
          ELSE IF kind = "panic"
          THEN gor' = [gor EXCEPT ![g] = DoneG(Panic(w), overlap)]
          ELSE \E h \in HeaderReads :
                  gor' = [gor EXCEPT ![g] =
                             [IdleG EXCEPT !.pc = "scan", !.kind = kind,
                                           !.target = IF kind = "lookup"
                                                      THEN elems[Len(elems) - 1]
                                                      ELSE s_empty,
                                           !.hdr = h, !.overlap = overlap, !.resp = w]]
    /\ UNCHANGED <<state, err, svc, heap, mw, handlers, out, writer>>

\* the request on goroutine g goes on by one read
ServeStep(g) ==
    /\ gor[g].pc = "scan"
    /\ \E n \in (CASE gor[g].kind = "list" -> ListStep(gor[g])
                   [] gor[g].kind = "logout" -> LogoutStep(gor[g])
                   [] OTHER -> LookupStep(gor[g])) :
          gor' = [gor EXCEPT ![g] = n]
    /\ UNCHANGED <<state, err, svc, heap, mw, handlers, out, writer>>

\* AddProvider is entered while requests are being served
AddProviderBegin(name, cid, csecret) ==
    /\ state = "ready"
    /\ writer.pc = "idle"
    /\ AddProviderResult(svc, heap, name, cid, csecret).svc.providers.len <= MaxProviders
    /\ writer' = [pc |-> "writing", name |-> name, cid |-> cid, csecret |-> csecret]
    /\ gor' = [g \in Goroutines |->
                 IF gor[g].pc = "scan" THEN [gor[g] EXCEPT !.overlap = TRUE] ELSE gor[g]]
    /\ UNCHANGED <<state, err, svc, heap, mw, handlers, out>>

\* and returns: its writes are done
AddProviderEnd ==
    /\ writer.pc = "writing"
    /\ svc' = Pending.svc
    /\ heap' = Pending.heap
    /\ writer' = IdleWriter
    /\ UNCHANGED <<state, err, mw, handlers, out, gor>>

\* AddProvider in the registration phase: before any request is served
AddProviderAtStartup(name, cid, csecret) ==
    /\ \A g \in Goroutines : gor[g] = IdleG
    /\ AddProvider(name, cid, csecret)

Init ==
    /\ state = "start"
    /\ err = s_empty
    /\ svc = ZeroSvc
    /\ heap = <<>>
    /\ mw = [held |-> FALSE, value |-> [Providers |-> NilSlice]]
    /\ handlers = "none"
    /\ out = NoOut
    /\ gor = [g \in Goroutines |-> IdleG]
    /\ writer = IdleWriter

\* the registry API: construction, registration, lookup, the middleware accessor
NextRegistry ==
    \/ \E opts \in OptsValues : NewService(opts)
    \/ \E name \in RegNames, c \in Creds : AddProvider(name, c[1], c[2])
    \/ \E name \in LookupNames : Provider(name)
    \/ Middleware

\* the HTTP surface: construction, registration, the handlers and the requests
\* the hosting server hands them
NextServe ==
    \/ \E opts \in OptsValues : NewService(opts)
    \/ \E name \in RegNames, c \in Creds : AddProvider(name, c[1], c[2])
    \/ Handlers
    \/ \E path \in Paths : ServeAuth(path)
    \/ ServeAvatar

\* Provider and Middleware change neither svc nor heap, and the handlers read
\* nothing else, so the two surfaces are checked apart
SpecRegistry == Init /\ [][NextRegistry]_vars

SpecServe == Init /\ [][NextServe]_vars

\* every operation of the package, with fewer names to register
NextOps ==
    \/ \E opts \in OptsValues : NewService(opts)
    \/ \E name \in OpsRegNames, c \in Creds : AddProvider(name, c[1], c[2])
    \/ \E name \in LookupNames : Provider(name)
    \/ Middleware
    \/ Handlers
    \/ \E path \in Paths : ServeAuth(path)
    \/ ServeAvatar

SpecOps == Init /\ [][NextOps]_vars

\* the two-phase lifecycle: registration, then requests served concurrently
\* on the goroutines, with lookups by the host in between
NextServing ==
    \/ \E opts \in RaceOpts : NewService(opts)
    \/ \E name \in RaceRegNames, c \in RaceCreds : AddProviderAtStartup(name, c[1], c[2])
    \/ Handlers
    \/ \E name \in {s_dev, s_twitter} : Provider(name)
    \/ \E g \in Goroutines, path \in RacePaths : ServeBegin(g, path)
    \/ \E g \in Goroutines : ServeStep(g)

SpecServing == Init /\ [][NextServing]_vars

\* late registration: AddProvider runs while a goroutine serves requests
NextRace ==
    \/ \E opts \in RaceOpts : NewService(opts)
    \/ Handlers
    \/ \E name \in RaceRegNames, c \in RaceCreds : AddProviderBegin(name, c[1], c[2])
    \/ AddProviderEnd
    \/ \E path \in RacePaths : ServeBegin("g1", path)
    \/ ServeStep("g1")

SpecRace == Init /\ [][NextRace]_vars

Next == NextRegistry \/ NextServe \/ NextOps \/ NextServing \/ NextRace

\* every operation of the package
Spec == Init /\ [][Next]_vars

----------------------------------------------------------------------------
(* Vocabulary of the properties.  Path segments are found here by position, *)
(* not with Split.                                                          *)

\* the registry: the descriptors the Service's providers slice shows
Registry == [i \in 1..svc.providers.len |-> heap[svc.providers.arr][i]]

\* the kinds AddProvider knows
SupportedKinds == {s_github, s_google, s_facebook, s_yandex, s_dev}

HasSlash(path) == \E i \in 1..Len(path) : path[i] = "/"

\* position of the last "/" of path, 0 when it has none
LastSlash(path) ==
    IF HasSlash(path)
    THEN CHOOSE i \in 1..Len(path) :
             path[i] = "/" /\ \A j \in (i + 1)..Len(path) : path[j] /= "/"
    ELSE 0

\* the final segment, and (for a path with a "/") the one before it
LastSegment(path) == SubSeq(path, LastSlash(path) + 1, Len(path))
SecondLastSegment(path) == LastSegment(SubSeq(path, 1, LastSlash(path) - 1))

\* a path of one segment in the sense of `/singleseg`: nothing but the segment
\* after an optional leading "/"
OneSegment(path) ==
    /\ Len(path) > 0
    /\ \A i \in 2..Len(path) : path[i] /= "/"
    /\ path /= <<"/">>

\* the request paths of the model, by shape
SlashPaths == {p \in Paths : HasSlash(p)}
NoSlashPaths == {p \in Paths : ~HasSlash(p)}
ListPaths == {p \in Paths : LastSegment(p) = s_list}
LogoutPaths == {p \in Paths : LastSegment(p) = s_logout}
OneSegmentPaths == {p \in Paths : OneSegment(p)}
\* paths with a second-to-last segment and a final one that is neither `list`
\* nor `logout`
ProviderPaths == {p \in SlashPaths : LastSegment(p) \notin {s_list, s_logout}}
\* the second-to-last segment of each of them
ProviderNameOf == [p \in ProviderPaths |-> SecondLastSegment(p)]

\* the step is the dispatch of a request for `path`.  ServeAuth(path) leaves
\* everything but `out` alone and records the path in it, so the three tests
\* before it hold of every such step that is not a stuttering step; they only
\* tell it apart from the other steps early.
Dispatched(path) ==
    out' /= out /\ out'.op = "auth" /\ out'.arg = path /\ ServeAuth(path)

\* the response is an HTTP response the dispatcher wrote itself
Answered(o, status) == o.outcome = "http" /\ o.status = status /\ o.handler = 0

----------------------------------------------------------------------------
(* Claims *)

\* C1: for every supported kind name, in any letter case, after
\* AddProvider(name, cid, csecret) the lookup of the lower-cased name succeeds
\* and returns a descriptor whose name is that lower-cased name.
C1_RegisterThenLookup ==
    [][\A name \in RegNames, c \in Creds :
          (AddProvider(name, c[1], c[2]) /\ ToLower(name) \in SupportedKinds)
          => LET r == ProviderResult(Elems(heap', svc'.providers), ToLower(name))
             IN r.err = s_empty /\ r.service.Name = ToLower(name)]_vars

\* C2: after construction the resolved issuer, which is the issuer of every
\* descriptor AddProvider creates, is Opts.Issuer when that is not empty and
\* "go-pkgz/auth" when it is.
C2_ResolvedIssuer ==
    state = "ready" =>
        LET resolved == IF svc.opts.Issuer /= s_empty
                        THEN svc.opts.Issuer
                        ELSE s_default_issuer
        IN /\ svc.issuer = resolved
           /\ \A i \in 1..Len(Registry) : Registry[i].Issuer = resolved

\* C3: a middleware value obtained from Middleware() shows, at every later
\* moment, the Service's current registry, whatever AddProvider calls followed.
C3_MiddlewareSeesRegistry ==
    mw.held => Elems(heap, mw.value.Providers) = Registry

\* the response lists the names of the registry, one per descriptor, in
\* registration order
ListsRegistry(o) ==
    /\ Answered(o, 200)
    /\ o.bodyKind = "list"
    /\ Len(o.list) = Len(Registry)
    /\ \A i \in 1..Len(Registry) : o.list[i] = Registry[i].Name

\* C4 as stated: a request whose final path segment is `list` is answered 200
\* with the names of the registry in registration order, duplicates included.
C4_ListAnyPath ==
    [][\A path \in ListPaths : Dispatched(path) => ListsRegistry(out')]_vars

\* C4 amended: the same for every path that holds a "/" (a path without one is
\* answered 400 before the final segment is looked at).
C4_ListInRegistrationOrder ==
    [][\A path \in ListPaths \cap SlashPaths :
          Dispatched(path) => ListsRegistry(out')]_vars

\* /auth/list answered with a name twice, once per registration
C4_Witness ==
    /\ out.op = "auth" /\ out.arg = p_auth_list
    /\ out.status = 200 /\ out.list = <<s_dev, s_dev>>
    /\ Len(Registry) = 2

\* C5: a request whose final path segment is `logout`, served while the
\* registry is empty, gets an HTTP response and never panics.
C5_LogoutEmptyRegistry ==
    [][\A path \in LogoutPaths :
          (Dispatched(path) /\ Len(Registry) = 0)
          => (out'.outcome = "http" /\ out'.status /= 0)]_vars

\* the request went to the handler of the first-registered descriptor
ToFirstRegistered(o) ==
    o.outcome = "delegated" /\ o.handler = 1 /\ o.service = Registry[1]

\* C6 as stated: with a provider registered, a request whose final path segment
\* is `logout` goes to the first-registered descriptor's handler and to no
\* other, whatever precedes the final segment.
C6_LogoutAnyPath ==
    [][\A path \in LogoutPaths :
          (Dispatched(path) /\ Len(Registry) >= 1) => ToFirstRegistered(out')]_vars

\* C6 amended: the same for every path that holds a "/".
C6_LogoutFirstRegistered ==
    [][\A path \in LogoutPaths \cap SlashPaths :
          (Dispatched(path) /\ Len(Registry) >= 1) => ToFirstRegistered(out')]_vars

\* /auth/github/logout went to dev, registered before github
C6_Witness ==
    /\ out.op = "auth" /\ out.arg = p_auth_github_logout
    /\ out.outcome = "delegated" /\ out.handler = 1
    /\ Len(Registry) = 2
    /\ Registry[1].Name = s_dev /\ Registry[2].Name = s_github

\* C7: a request whose final path segment is neither `list` nor `logout` and
\* whose second-to-last segment names no registered descriptor is answered 400
\* with the JSON body {"error":"provider <name> not supported"}, and no
\* provider handler is called.
C7_UnknownProvider ==
    [][\A path \in ProviderPaths :
          (/\ Dispatched(path)
           /\ \A i \in 1..Len(Registry) : Registry[i].Name /= ProviderNameOf[path])
          => (/\ Answered(out', 400)
              /\ out'.bodyKind = "error"
              /\ out'.error = s_provider_ \o ProviderNameOf[path] \o s_not_supported)]_vars

\* /auth/foo/bar refused while providers are registered
C7_Witness ==
    /\ out.op = "auth" /\ out.arg = p_auth_foo_bar
    /\ out.status = 400 /\ out.bodyKind = "error"
    /\ Len(Registry) >= 1

\* C8 as stated: a request whose path has only one path segment, such as
\* /singleseg, is answered 400 with an empty body.
C8_OneSegmentEmpty400 ==
    [][\A path \in OneSegmentPaths :
          Dispatched(path) => (Answered(out', 400) /\ out'.bodyKind = "empty")]_vars

\* C8 amended: a request whose path holds no "/" is answered 400 with an empty
\* body; a path of one segment after a leading "/", the segment being neither
\* `list` nor `logout`, is answered 400 with the body
\* {"error":"provider  not supported"} (the provider name is empty).
C8_NoSlashEmpty400 ==
    [][/\ \A path \in NoSlashPaths :
             Dispatched(path) => (Answered(out', 400) /\ out'.bodyKind = "empty")
       /\ \A path \in OneSegmentPaths \cap ProviderPaths :
             Dispatched(path) => (/\ Answered(out', 400)
                                  /\ out'.bodyKind = "error"
                                  /\ out'.error = s_provider_ \o s_not_supported)]_vars

\* `singleseg` refused with an empty body
C8_Witness ==
    /\ out.op = "auth" /\ out.arg = p_noslash
    /\ out.status = 400 /\ out.bodyKind = "empty"

\* C9: for a Service built with no avatar store, the avatar handler Handlers()
\* returns answers every request and never panics.
C9_AvatarHandlerDefined ==
    (out.op = "avatar" /\ svc.opts.AvatarStore = "nil") => out.outcome /= "panic"

\* C10: NewService fails with an error and returns no Service when Opts has no
\* SecretReader, whatever the other fields; with one it returns a Service whose
\* registry is empty.
C10_ConstructNeedsSecret ==
    [][\A opts \in OptsValues :
          NewService(opts)
          => IF opts.SecretReader = "nil"
             THEN state' = "failed" /\ err' /= s_empty /\ svc' = ZeroSvc
             ELSE /\ state' = "ready" /\ err' = s_empty
                  /\ svc'.opts = opts
                  /\ svc'.providers.len = 0
                  /\ svc'.authMiddleware.Providers.len = 0]_vars

\* a construction refused for want of a SecretReader
C10_Witness ==
    state = "failed" /\ err = s_SecretReader_not_defined /\ svc = ZeroSvc

----------------------------------------------------------------------------
(* C11 *)

\* the names of RegNames that are no supported kind after lower-casing
UnsupportedNames == {n \in RegNames : ToLower(n) \notin SupportedKinds}

\* the provider view of the Service's own middleware value
OwnView == Elems(heap, svc.authMiddleware.Providers)

\* C11: in every state a ready Service can be in, AddProvider with a name that
\* is no supported kind after lower-casing returns the Service and the heap it
\* was given: the registry, the view of the Service's own middleware and the
\* view of a middleware value handed out earlier are what they were, and
\* Provider of that name on the registry after the call fails with
\* "provider <name> not found".  The call is a stuttering step of AddProvider,
\* so the property is stated on the result of the call in each reachable state.
C11_UnsupportedIsNoOp ==
    state = "ready" =>
        \A name \in UnsupportedNames, c \in Creds :
            LET r == AddProviderResult(svc, heap, name, c[1], c[2])
                after == Elems(r.heap, r.svc.providers)
            IN /\ r.svc = svc
               /\ after = Registry
               /\ Elems(r.heap, r.svc.authMiddleware.Providers) = OwnView
               /\ (mw.held =>
                      Elems(r.heap, mw.value.Providers) = Elems(heap, mw.value.Providers))
               /\ ProviderResult(after, name).err = NotFoundError(name)

\* a non-empty registry seen by a middleware value, on which AddProvider("twitter")
\* can act and changes nothing, and the Provider("twitter") that failed on it
C11_Witness ==
    /\ state = "ready"
    /\ Len(Registry) >= 1
    /\ mw.held
    /\ mw.value.Providers.len >= 1
    /\ s_twitter \in UnsupportedNames
    /\ ENABLED (AddProvider(s_twitter, s_cid, s_csecret) /\ UNCHANGED vars)
    /\ out.op = "Provider"
    /\ out.arg = s_twitter
    /\ out.outcome = "notfound"
    /\ out.error = NotFoundError(s_twitter)

----------------------------------------------------------------------------
(* C12 *)

\* the step is a call Provider(name) whose result was written to out
Looked(name) ==
    /\ out' /= out
    /\ out'.op = "Provider"
    /\ out'.arg = name
    /\ Provider(name)

\* no descriptor of the registry has a name equal to `name`, character for character
Absent(name) == \A i \in 1..Len(Registry) : Registry[i].Name /= name

\* C12: Provider(name) fails, with the error text "provider <name> not found",
\* exactly when no descriptor of the registry (the empty one included) has a
\* name equal to `name`; otherwise it succeeds, with no error and a descriptor
\* of that name.
C12_LookupFailsIffAbsent ==
    [][\A name \in LookupNames :
          Looked(name) =>
              /\ (out'.outcome = "notfound") <=> Absent(name)
              /\ (out'.outcome = "found") <=> ~Absent(name)
              /\ Absent(name) =>
                    out'.error = <<"p", "r", "o", "v", "i", "d", "e", "r", " ">> \o name
                                   \o <<" ", "n", "o", "t", " ", "f", "o", "u", "n", "d">>
              /\ ~Absent(name) => out'.error = s_empty /\ out'.service.Name = name]_vars

\* Provider("DEV") failed on a registry that holds a descriptor named "dev"
C12_Witness ==
    /\ \E i \in 1..Len(Registry) : Registry[i].Name = s_dev
    /\ out.op = "Provider"
    /\ out.arg = s_DEV
    /\ out.outcome = "notfound"
    /\ out.error = <<"p", "r", "o", "v", "i", "d", "e", "r", " ", "D", "E", "V",
                     " ", "n", "o", "t", " ", "f", "o", "u", "n", "d">>

----------------------------------------------------------------------------
(* C13 *)

\* the names of RegNames that are a supported kind after lower-casing
SupportedNames == RegNames \ UnsupportedNames

\* the step extends the registry by one descriptor
Appended == svc'.providers.len = svc.providers.len + 1

\* the last descriptor of the registry after the step carries c and the issuer
\* the Service had before it
Carries(c) ==
    LET d == Registry'[Len(Registry')]
    IN /\ Len(Registry') = Len(Registry) + 1
       /\ d.Cid = c[1]
       /\ d.Csecret = c[2]
       /\ d.Issuer = svc.issuer

\* C13: the descriptor a step AddProvider(name, cid, csecret) with a supported
\* name appends to the registry has Cid = cid, Csecret = csecret and Issuer =
\* the issuer of the Service at the call, for every kind and letter case of
\* the name and for empty and non-empty cid and csecret.
C13_DescriptorCarriesParams ==
    [][\A name \in SupportedNames, c \in Creds :
          (Appended /\ AddProvider(name, c[1], c[2])) => Carries(c)]_vars

\* a registry built by AddProvider(_, "", "") and then AddProvider(_, "cid",
\* "csecret"), each descriptor carrying the credentials and the Service's issuer
C13_Witness ==
    /\ Len(Registry) = 2
    /\ Registry[1].Cid = s_empty
    /\ Registry[1].Csecret = s_empty
    /\ Registry[2].Cid = s_cid
    /\ Registry[2].Csecret = s_csecret
    /\ Registry[1].Issuer = svc.issuer
    /\ Registry[2].Issuer = svc.issuer
    /\ Registry[2].Name = s_facebook

----------------------------------------------------------------------------
(* C15 *)

\* C15: in every state reached by AddProvider calls with supported and
\* unsupported names, the Providers of the Service's own authMiddleware value
\* are the descriptors of the registry, element for element and in the same
\* order.
C15_OwnViewIsRegistry ==
    /\ Len(OwnView) = Len(Registry)
    /\ \A i \in 1..Len(Registry) : OwnView[i] = Registry[i]

\* two registrations of different kinds, both seen through s.authMiddleware
C15_Witness ==
    /\ Len(Registry) = 2
    /\ svc.authMiddleware.Providers.len = 2
    /\ Registry[1].Name /= Registry[2].Name
    /\ OwnView[2] = Registry[2]

----------------------------------------------------------------------------
(* C14 *)

\* C14: across every step of every operation (NewService, AddProvider,
\* Provider, Middleware, Handlers, a request served) the registry before the
\* step is a prefix of the registry after it, and the registry after it has
\* the same length or one descriptor more.
C14_AppendOnly ==
    [][/\ Len(Registry') \in {Len(Registry), Len(Registry) + 1}
       /\ \A i \in 1..Len(Registry) : Registry'[i] = Registry[i]]_vars

\* a registry extended twice, the second time into a fresh array, after a
\* Middleware(), a Handlers() and a request delegated to the second descriptor
C14_Witness ==
    /\ Len(Registry) = 2
    /\ svc.providers.arr = 2
    /\ mw.held
    /\ handlers /= "none"
    /\ out.op = "auth"
    /\ out.outcome = "delegated"
    /\ out.handler = 2

----------------------------------------------------------------------------
(* C16 *)

\* the positions of the registry whose descriptor is named `name`
Positions(name) == {i \in 1..Len(Registry) : Registry[i].Name = name}

\* `name` was registered more than once
Duplicated(name) == Cardinality(Positions(name)) >= 2

\* the result in o is the descriptor registered first under `name`
IsEarliest(o, name) ==
    /\ o.handler \in Positions(name)
    /\ \A j \in Positions(name) : o.handler <= j
    /\ o.service = Registry[o.handler]

\* C16: with a name registered more than once, Provider(name) returns the
\* descriptor registered first under that name, and a request whose path has a
\* "/", a final segment other than list and logout and that name as the
\* segment before it is delegated to the handler of that same descriptor.
C16_EarliestOfDuplicates ==
    [][/\ \A name \in LookupNames :
            (Looked(name) /\ Duplicated(name)) =>
                out'.outcome = "found" /\ IsEarliest(out', name)
       /\ \A path \in ProviderPaths :
            (Dispatched(path) /\ Duplicated(ProviderNameOf[path])) =>
                out'.outcome = "delegated" /\ IsEarliest(out', ProviderNameOf[path])]_vars

\* "dev" registered twice with different credentials, and /auth/dev/login
\* delegated to the first of the two
C16_Witness ==
    /\ Len(Registry) = 2
    /\ Registry[1].Name = s_dev
    /\ Registry[2].Name = s_dev
    /\ Registry[1] /= Registry[2]
    /\ out.op = "auth"
    /\ out.arg = p_auth_dev_login
    /\ out.outcome = "delegated"
    /\ out.handler = 1
    /\ out.service = Registry[1]

----------------------------------------------------------------------------
(* C17 *)

\* the step is one of the request on goroutine g: its begin or one of its reads
DispatchStep(g) == gor'[g] /= gor[g] /\ writer' = writer

\* the step leaves the Service, the backing arrays, the registry and the view
\* of the Service's middleware as they were
RegistryUntouched ==
    /\ svc' = svc
    /\ heap' = heap
    /\ Registry' = Registry
    /\ OwnView' = OwnView

\* C17: every step of a request (its begin, each read of the registry, its
\* answer; for list, logout, a provider route, an unknown provider and a path
\* too short) and every Provider call leaves the registry and the view of the
\* Service's middleware unchanged; and with AddProvider called only before the
\* first request, each request served on a goroutine, however its reads are
\* interleaved with those of the request on the other goroutine and with
\* Provider calls, is answered as providerHandler answers it run alone.
C17_DispatchReadsOnly ==
    [][/\ \A g \in Goroutines : DispatchStep(g) => RegistryUntouched
       /\ \A name \in LookupNames : Looked(name) => RegistryUntouched
       /\ \A g \in Goroutines :
            (DispatchStep(g) /\ gor'[g].pc = "done") =>
                gor'[g].resp = providerHandler(svc, heap, gor'[g].resp.arg)]_vars

\* the list request on g1 answered with both names while the request on g2,
\* for a provider route, is between two reads, after a Provider call
C17_Witness ==
    /\ Len(Registry) = 2
    /\ gor["g1"].pc = "done"
    /\ gor["g1"].resp.bodyKind = "list"
    /\ Len(gor["g1"].resp.list) = 2
    /\ gor["g2"].pc = "scan"
    /\ gor["g2"].kind = "lookup"
    /\ gor["g2"].i = 1
    /\ out.op = "Provider"

----------------------------------------------------------------------------
(* C18 *)

\* list is the sequence of names of a prefix of provs
IsNamePrefix(list, provs) ==
    /\ Len(list) <= Len(provs)
    /\ \A i \in 1..Len(list) : list[i] = provs[i].Name

\* the registry once the AddProvider call in progress, if any, has returned;
\* by C14 a prefix of it is a prefix of every later registry
Eventual ==
    IF writer.pc = "writing" THEN Elems(Pending.heap, Pending.svc.providers) ELSE Registry

\* goroutine g holds the answer to a list request
ListAnswer(g) ==
    /\ gor[g].pc = "done"
    /\ gor[g].resp.arg \in ListPaths \cap SlashPaths

\* the answer is 200 with the names of a prefix of the registry, in order
PrefixAnswer(g) ==
    /\ Answered(gor[g].resp, 200)
    /\ gor[g].resp.bodyKind = "list"
    /\ IsNamePrefix(gor[g].resp.list, Eventual)

\* C18 as stated: every answer to a list request served while AddProvider
\* calls go on is the name sequence of a prefix of the final registry.
C18_ListIsPrefix == \A g \in Goroutines : ListAnswer(g) => PrefixAnswer(g)

\* C18, amended: every answer to a list request that ran from its first read
\* of the registry to its last with no AddProvider call in progress (list
\* requests and AddProvider calls alternating, one at a time) is the name
\* sequence of a prefix of the final registry.
C18_QuietListIsPrefix ==
    \A g \in Goroutines : (ListAnswer(g) /\ ~gor[g].overlap) => PrefixAnswer(g)

\* a list request served between two AddProvider calls: one name listed, two
\* different names registered by now
C18_Witness ==
    /\ ListAnswer("g1")
    /\ ~gor["g1"].overlap
    /\ Len(gor["g1"].resp.list) = 1
    /\ Len(Registry) = 2
    /\ Registry[1].Name /= Registry[2].Name
    /\ gor["g1"].resp.list[1] = Registry[1].Name

====
